---- MODULE Spec2Model ----
(***************************************************************************)
(* Model of package linq (src/main.go, lines 94-388): Query[T] wraps a Go  *)
(* slice, and every operation returns a new Query.  A Go slice is a view   *)
(* (array, offset, length, capacity) of a backing array, so the model      *)
(* keeps a heap of backing arrays: two slices may share one array.         *)
(*                                                                         *)
(* Caller-supplied functions are modelled by their graphs:                 *)
(*   predicate  func(T) bool     a subset of Values   (p(x)  ==  x \in p)   *)
(*   equal/less func(a, b T) bool  a set of pairs  (f(a,b) == <<a,b>> \in f)*)
(*   selector   func(T) R        a function [Values -> Values]             *)
(***************************************************************************)
EXTENDS Integers, Sequences, FiniteSets, TLC

VARIABLES heap, q, held, last, depth

vars == <<heap, q, held, last, depth>>

(* ---------------------------- bounds ----------------------------------- *)

\* element values of the sequences of Spec and SpecChain
Values == {1, 2}
\* element values of the sequences of SpecSort
SortValues == {1, 2, 3}
\* longest slice the caller passes to From
MaxLen == 3
\* longest slice passed as `other` to Union, Intersect, Except
MaxOther == 2
\* longest predicate list of a PredicateGroup
MaxPreds == 2
\* most unused capacity behind a slice (caller's, or left by append)
MaxSpare == 1
\* number of operations applied one after the other in SpecChain
MaxChain == 2
\* number of slices the caller holds in SpecChain
MaxHeld == 2
\* length of the slices sorted in SpecSort
SortLen == 7

(* ------------------------- program constants --------------------------- *)

\* `var zero T`, the zero value of the element type (int)
Zero == 0
\* LogicalOperator: And = iota, Or
And == 0
Or == 1
\* sort.Slice sorts at most 12 elements by insertion sort alone (Go 1.19 and later)
MaxInsertion == 12
\* gap of the ShellSort pass Go 1.18 makes first on 7 to 12 elements
ShellGap == 6

(* ------------------------------ helpers -------------------------------- *)

SeqsUpTo(S, n) == UNION {[1..k -> S] : k \in 0..n}

Min2(a, b) == IF a < b THEN a ELSE b

(* ------------------------------ slices --------------------------------- *)

\* a slice without backing array: nil, []T{} and make([]T, 0)
NoSlice == [arr |-> 0, off |-> 0, len |-> 0, cap |-> 0]

\* the elements s[0], ..., s[len-1] of slice s in heap h
Elems(h, s) == [i \in 1..s.len |-> h[s.arr][s.off + i]]

\* a new backing array of capacity c holding elems; the rest is zeroed
NewArray(elems, c) == [i \in 1..c |-> IF i <= Len(elems) THEN elems[i] ELSE Zero]

\* the heap and slice after allocating elems with `spare` unused capacity
Alloc(h, elems, spare) ==
    IF Len(elems) = 0
    THEN [heap |-> h, q |-> NoSlice, ok |-> TRUE]
    ELSE [heap |-> Append(h, NewArray(elems, Len(elems) + spare)),
          q |-> [arr |-> Len(h) + 1, off |-> 0, len |-> Len(elems),
                 cap |-> Len(elems) + spare],
          ok |-> TRUE]

\* a run-time panic: nothing is returned
Panic(h, s) == [heap |-> h, q |-> s, ok |-> FALSE]

\* From(source): the Query holds the caller's slice itself
From(source) == source

\* ToSlice(): the Query's slice itself
ToSliceQ(s) == s

\* Count(): len(q.source)
Count(s) == s.len

(* --------------------- WhereGroup, Where (124-155) --------------------- *)

\* pred(item)
Pred(p, item) == item \in p

\* the AND loop: false at the first predicate that fails, true at the end
RECURSIVE AllHold(_, _, _)
AllHold(preds, i, item) ==
    IF i > Len(preds) THEN TRUE
    ELSE IF ~Pred(preds[i], item) THEN FALSE
    ELSE AllHold(preds, i + 1, item)

\* the OR loop: true at the first predicate that holds, false at the end
RECURSIVE AnyHolds(_, _, _)
AnyHolds(preds, i, item) ==
    IF i > Len(preds) THEN FALSE
    ELSE IF Pred(preds[i], item) THEN TRUE
    ELSE AnyHolds(preds, i + 1, item)

\* Include with `include` set before the branches: OR includes every item
IncludeSetBefore(group, item) ==
    IF group.op = And THEN AllHold(group.preds, 1, item) ELSE TRUE

\* `include` for one item; an operator that is neither And nor Or includes nothing
Include(group, item) ==
    IF group.op = And THEN AllHold(group.preds, 1, item)
    ELSE IF group.op = Or THEN AnyHolds(group.preds, 1, item)
    ELSE FALSE

\* the loop over q.source, appending the included items to result
RECURSIVE WhereGroupLoop(_, _, _, _)
WhereGroupLoop(src, i, group, result) ==
    IF i > Len(src) THEN result
    ELSE WhereGroupLoop(src, i + 1, group,
                        IF Include(group, src[i]) THEN Append(result, src[i])
                        ELSE result)

WhereGroup(h, s, group, spare) ==
    Alloc(h, WhereGroupLoop(Elems(h, s), 1, group, <<>>), spare)

Where(h, s, predicate, spare) ==
    WhereGroup(h, s, [preds |-> <<predicate>>, op |-> And], spare)

(* --------------------------- Distinct (198-214) ------------------------ *)

\* equal(a, b), and less(a, b)
Call2(f, a, b) == <<a, b>> \in f

\* IsDuplicate comparing with the last kept element only
IsDuplicateOfLast(result, j, item, equal) ==
    Len(result) > 0 /\ <<item, result[Len(result)]>> \in equal

\* the inner loop: is item equal to an element already in result
RECURSIVE IsDuplicate(_, _, _, _)
IsDuplicate(result, j, item, equal) ==
    IF j > Len(result) THEN FALSE
    ELSE IF Call2(equal, item, result[j]) THEN TRUE
    ELSE IsDuplicate(result, j + 1, item, equal)

RECURSIVE DistinctLoop(_, _, _, _)
DistinctLoop(src, i, equal, result) ==
    IF i > Len(src) THEN result
    ELSE DistinctLoop(src, i + 1, equal,
                      IF IsDuplicate(result, 1, src[i], equal) THEN result
                      ELSE Append(result, src[i]))

Distinct(h, s, equal, spare) ==
    Alloc(h, DistinctLoop(Elems(h, s), 1, equal, <<>>), spare)

(* ------------------ OrderBy, OrderByDescending (216-231) --------------- *)

Swap(data, i, j) == [data EXCEPT ![i] = data[j], ![j] = data[i]]

\* insertion sort's inner loop: for j := i; j > a && less(data[j], data[j-1]); j--
RECURSIVE InsertInner(_, _, _)
InsertInner(data, j, less) ==
    IF j > 1 /\ Call2(less, data[j], data[j - 1])
    THEN InsertInner(Swap(data, j, j - 1), j - 1, less)
    ELSE data

RECURSIVE InsertionSortLoop(_, _, _)
InsertionSortLoop(data, i, less) ==
    IF i > Len(data) THEN data
    ELSE InsertionSortLoop(InsertInner(data, i, less), i + 1, less)

InsertionSort(data, less) == InsertionSortLoop(data, 2, less)

\* Go 1.18: for i := a + 6; i < b; i++ { if less(i, i-6) { swap(i, i-6) } }
RECURSIVE ShellPassLoop(_, _, _)
ShellPassLoop(data, i, less) ==
    IF i > Len(data) THEN data
    ELSE ShellPassLoop(IF Call2(less, data[i], data[i - ShellGap])
                       THEN Swap(data, i, i - ShellGap) ELSE data,
                       i + 1, less)

\* sort.Slice on at most MaxInsertion elements.  Go 1.19 and later sort them
\* by insertion sort; Go 1.18 (the oldest toolchain with generics, which the
\* README names) makes the ShellSort pass first.  go118 is the toolchain.
SortSlice(data, less, go118) ==
    IF go118 THEN InsertionSort(ShellPassLoop(data, ShellGap + 1, less), less)
    ELSE InsertionSort(data, less)

\* make + copy, then sort.Slice with less(result[i], result[j])
OrderBy(h, s, less, go118) ==
    Alloc(h, SortSlice(Elems(h, s), less, go118), 0)

\* the comparator func(a, b T) bool { return !less(a, b) } over universe U
NotLess(less, U) == (U \X U) \ less

\* OrderByDescending passing less on as it is
OrderByDescendingAsGiven(h, s, less, U, go118) ==
    OrderBy(h, s, less, go118)

OrderByDescending(h, s, less, U, go118) ==
    OrderBy(h, s, NotLess(less, U), go118)

(* ------------------------- Skip, Take (272-286) ------------------------ *)

\* q.source[n:] panics when n < 0 (slice bounds out of range)
Skip(h, s, n) ==
    IF n >= s.len THEN [heap |-> h, q |-> NoSlice, ok |-> TRUE]
    ELSE IF n < 0 THEN Panic(h, s)
    ELSE [heap |-> h,
          q |-> [arr |-> s.arr, off |-> s.off + n, len |-> s.len - n,
                 cap |-> s.cap - n],
          ok |-> TRUE]

\* q.source[:n] keeps the capacity of q.source; it panics when n < 0
Take(h, s, n) ==
    LET m == IF n > s.len THEN s.len ELSE n
    IN  IF m < 0 THEN Panic(h, s)
        ELSE [heap |-> h, q |-> [s EXCEPT !.len = m], ok |-> TRUE]

(* ----------- Reverse, ElementAt, DefaultIfEmpty (288-312) -------------- *)

Reverse(h, s) ==
    Alloc(h, [i \in 1..s.len |-> Elems(h, s)[s.len + 1 - i]], 0)

\* ElementAt counting a negative index from the end
ElementAtFromEnd(h, s, index) ==
    IF index >= s.len \/ index < 0 - s.len
    THEN [elem |-> Zero, found |-> FALSE]
    ELSE [elem |-> Elems(h, s)[IF index < 0 THEN s.len + index + 1 ELSE index + 1],
          found |-> TRUE]

ElementAt(h, s, index) ==
    IF index < 0 \/ index >= s.len
    THEN [elem |-> Zero, found |-> FALSE]
    ELSE [elem |-> Elems(h, s)[index + 1], found |-> TRUE]

DefaultIfEmpty(h, s, defaultValue) ==
    IF s.len = 0 THEN Alloc(h, <<defaultValue>>, 0)
    ELSE [heap |-> h, q |-> s, ok |-> TRUE]

(* ------------------ Union, Intersect, Except (323-356) ----------------- *)

\* append(s, other...): in place when the capacity of s suffices, and then it
\* overwrites the cells of the backing array behind s; into a new array
\* otherwise.  The new array is reachable from `combined` alone, which Union
\* drops on return, so the heap does not keep it.
AppendAll(h, s, other) ==
    IF Len(other) > 0 /\ s.len + Len(other) <= s.cap
    THEN [heap |-> [h EXCEPT ![s.arr] =
                      [i \in 1..Len(@) |->
                         IF i > s.off + s.len /\ i <= s.off + s.len + Len(other)
                         THEN other[i - (s.off + s.len)] ELSE @[i]]],
          elems |-> Elems(h, s) \o other]
    ELSE [heap |-> h, elems |-> Elems(h, s) \o other]

\* Union with other before the current sequence
UnionOtherFirst(h, s, other, equal, spare) ==
    Alloc(h, DistinctLoop(other \o Elems(h, s), 1, equal, <<>>), spare)

Union(h, s, other, equal, spare) ==
    LET combined == AppendAll(h, s, other)
    IN  Alloc(combined.heap, DistinctLoop(combined.elems, 1, equal, <<>>), spare)

\* the inner loop over other: is item equal to an element of other
RECURSIVE InOther(_, _, _, _)
InOther(other, j, item, equal) ==
    IF j > Len(other) THEN FALSE
    ELSE IF Call2(equal, item, other[j]) THEN TRUE
    ELSE InOther(other, j + 1, item, equal)

RECURSIVE IntersectLoop(_, _, _, _, _)
IntersectLoop(src, i, other, equal, result) ==
    IF i > Len(src) THEN result
    ELSE IntersectLoop(src, i + 1, other, equal,
                       IF InOther(other, 1, src[i], equal)
                       THEN Append(result, src[i]) ELSE result)

\* Intersect without the final Distinct
IntersectAll(h, s, other, equal, spare) ==
    Alloc(h, IntersectLoop(Elems(h, s), 1, other, equal, <<>>), spare)

Intersect(h, s, other, equal, spare) ==
    Alloc(h, DistinctLoop(IntersectLoop(Elems(h, s), 1, other, equal, <<>>),
                          1, equal, <<>>), spare)

RECURSIVE ExceptLoop(_, _, _, _, _)
ExceptLoop(src, i, other, equal, result) ==
    IF i > Len(src) THEN result
    ELSE ExceptLoop(src, i + 1, other, equal,
                    IF InOther(other, 1, src[i], equal)
                    THEN result ELSE Append(result, src[i]))

\* Except with a final Distinct, as Intersect has
ExceptDistinct(h, s, other, equal, spare) ==
    Alloc(h, DistinctLoop(ExceptLoop(Elems(h, s), 1, other, equal, <<>>),
                          1, equal, <<>>), spare)

Except(h, s, other, equal, spare) ==
    Alloc(h, ExceptLoop(Elems(h, s), 1, other, equal, <<>>), spare)

(* ---------------------------- Select (362-369) ------------------------- *)

Select(h, s, selector, spare) ==
    Alloc(h, [i \in 1..s.len |-> selector[Elems(h, s)[i]]], spare)

(* ------------------------- the caller's inputs ------------------------- *)

\* predicates, PredicateGroups, equality functions and selectors over Values
Preds == SUBSET Values
LogicalOps == {And, Or, Or + 1}
Groups == [preds : SeqsUpTo(Preds, MaxPreds), op : LogicalOps]
Relations(U) == SUBSET (U \X U)
Selectors == [Values -> Values]
Others == SeqsUpTo(Values, MaxOther)
\* the counts given to Skip and Take, and the indices given to ElementAt
Counts == (0 - 2)..(MaxLen + 2)

\* func(a, b int) bool { return a == b } and { return a < b } (linq_test.go)
EqualInt(U) == {p \in U \X U : p[1] = p[2]}
LessInt(U) == {p \in U \X U : p[1] < p[2]}

\* the strict weak orders over U: irreflexive, transitive, and with a
\* transitive tie (neither less(a, b) nor less(b, a))
Tied(less, a, b) == ~Call2(less, a, b) /\ ~Call2(less, b, a)
IsStrictWeakOrder(less, U) ==
    /\ \A a \in U : ~Call2(less, a, a)
    /\ \A a, b, c \in U : Call2(less, a, b) /\ Call2(less, b, c) => Call2(less, a, c)
    /\ \A a, b, c \in U : Tied(less, a, b) /\ Tied(less, b, c) => Tied(less, a, c)
StrictWeakOrders(U) == {less \in Relations(U) : IsStrictWeakOrder(less, U)}

\* the slice the caller passes to From: xs, with `spare` cells behind it
CallerSlice(xs, spare) ==
    IF Len(xs) + spare = 0
    THEN [heap |-> <<>>, q |-> NoSlice]
    ELSE [heap |-> <<NewArray(xs, Len(xs) + spare)>>,
          q |-> [arr |-> 1, off |-> 0, len |-> Len(xs), cap |-> Len(xs) + spare]]

(* ------------------------------- state --------------------------------- *)
(* heap   the backing arrays                                               *)
(* q      the source slice of the current Query                            *)
(* held   the slices the caller holds: held[1] is the slice given to From, *)
(*        the others were returned by ToSlice                              *)
(* last   the last call: its name, arguments, q.source before it (in),     *)
(*        the source of the Query returned (out), ok = it did not panic,   *)
(*        and ElementAt's results (elem, found)                            *)
(* depth  the number of calls made                                         *)

NoCall == [op |-> "From", n |-> 0, other |-> <<>>, fn |-> {}, preds |-> <<>>,
           lop |-> And, sel |-> <<>>, def |-> Zero, in |-> <<>>, out |-> <<>>,
           ok |-> TRUE, found |-> FALSE, elem |-> Zero]

\* q := From(xs)
InitFrom(inputs, spares) ==
    \E xs \in inputs, spare \in spares :
        LET c == CallerSlice(xs, spare)
        IN  /\ heap = c.heap
            /\ q = From(c.q)
            /\ held = <<c.q>>
            /\ last = [NoCall EXCEPT !.in = xs, !.out = xs]
            /\ depth = 0

\* q := the Query r returned by call `call`; a panic returns nothing
Returned(call, r) ==
    /\ heap' = r.heap
    /\ q' = IF r.ok THEN r.q ELSE q
    /\ held' = held
    /\ last' = [call EXCEPT !.in = Elems(heap, q),
                            !.out = IF r.ok THEN Elems(r.heap, r.q) ELSE <<>>,
                            !.ok = r.ok]
    /\ depth' = depth + 1

(* ------------------------------ the calls ------------------------------ *)

DoWhere(preds) ==
    \E p \in preds, spare \in 0..MaxSpare :
        Returned([NoCall EXCEPT !.op = "Where", !.preds = <<p>>],
                 Where(heap, q, p, spare))

DoWhereGroup(groups) ==
    \E g \in groups, spare \in 0..MaxSpare :
        Returned([NoCall EXCEPT !.op = "WhereGroup", !.preds = g.preds, !.lop = g.op],
                 WhereGroup(heap, q, g, spare))

DoDistinct(eqs) ==
    \E eq \in eqs, spare \in 0..MaxSpare :
        Returned([NoCall EXCEPT !.op = "Distinct", !.fn = eq],
                 Distinct(heap, q, eq, spare))

DoOrderBy(lesses) ==
    /\ q.len <= MaxInsertion
    /\ \E less \in lesses, go118 \in BOOLEAN :
        Returned([NoCall EXCEPT !.op = "OrderBy", !.fn = less],
                 OrderBy(heap, q, less, go118))

DoOrderByDescending(lesses, U) ==
    /\ q.len <= MaxInsertion
    /\ \E less \in lesses, go118 \in BOOLEAN :
        Returned([NoCall EXCEPT !.op = "OrderByDescending", !.fn = less],
                 OrderByDescending(heap, q, less, U, go118))

DoSkip ==
    \E n \in Counts :
        Returned([NoCall EXCEPT !.op = "Skip", !.n = n], Skip(heap, q, n))

DoTake ==
    \E n \in Counts :
        Returned([NoCall EXCEPT !.op = "Take", !.n = n], Take(heap, q, n))

DoReverse ==
    Returned([NoCall EXCEPT !.op = "Reverse"], Reverse(heap, q))

DoDefaultIfEmpty ==
    \E d \in Values :
        Returned([NoCall EXCEPT !.op = "DefaultIfEmpty", !.def = d],
                 DefaultIfEmpty(heap, q, d))

DoUnion(others, eqs) ==
    \E other \in others, eq \in eqs, spare \in 0..MaxSpare :
        Returned([NoCall EXCEPT !.op = "Union", !.other = other, !.fn = eq],
                 Union(heap, q, other, eq, spare))

DoIntersect(others, eqs) ==
    \E other \in others, eq \in eqs, spare \in 0..MaxSpare :
        Returned([NoCall EXCEPT !.op = "Intersect", !.other = other, !.fn = eq],
                 Intersect(heap, q, other, eq, spare))

DoExcept(others, eqs) ==
    \E other \in others, eq \in eqs, spare \in 0..MaxSpare :
        Returned([NoCall EXCEPT !.op = "Except", !.other = other, !.fn = eq],
                 Except(heap, q, other, eq, spare))

DoSelect(selectors) ==
    \E sel \in selectors, spare \in 0..MaxSpare :
        Returned([NoCall EXCEPT !.op = "Select", !.sel = sel],
                 Select(heap, q, sel, spare))

\* ElementAt returns (element, found); the Query stays as it is
DoElementAt ==
    \E index \in Counts :
        LET r == ElementAt(heap, q, index)
        IN  /\ last' = [NoCall EXCEPT !.op = "ElementAt", !.n = index,
                                      !.in = Elems(heap, q), !.out = Elems(heap, q),
                                      !.found = r.found, !.elem = r.elem]
            /\ depth' = depth + 1
            /\ UNCHANGED <<heap, q, held>>

\* ToSlice hands q.source to the caller
DoToSlice ==
    /\ Len(held) < MaxHeld
    /\ held' = Append(held, ToSliceQ(q))
    /\ last' = [NoCall EXCEPT !.op = "ToSlice", !.in = Elems(heap, q),
                              !.out = Elems(heap, ToSliceQ(q))]
    /\ UNCHANGED <<heap, q>>

(* --------- Spec: one call on From(xs), with every argument ------------- *)

Init == InitFrom(SeqsUpTo(Values, MaxLen), 0..MaxSpare)

WhereStep == depth = 0 /\ DoWhere(Preds)
WhereGroupStep == depth = 0 /\ DoWhereGroup(Groups)
DistinctStep == depth = 0 /\ DoDistinct(Relations(Values))
OrderByStep == depth = 0 /\ DoOrderBy(Relations(Values))
OrderByDescendingStep == depth = 0 /\ DoOrderByDescending(Relations(Values), Values)
SkipStep == depth = 0 /\ DoSkip
TakeStep == depth = 0 /\ DoTake
ReverseStep == depth = 0 /\ DoReverse
ElementAtStep == depth = 0 /\ DoElementAt
DefaultIfEmptyStep == depth = 0 /\ DoDefaultIfEmpty
UnionStep == depth = 0 /\ DoUnion(Others, Relations(Values))
IntersectStep == depth = 0 /\ DoIntersect(Others, Relations(Values))
ExceptStep == depth = 0 /\ DoExcept(Others, Relations(Values))
SelectStep == depth = 0 /\ DoSelect(Selectors)
ToSliceStep == depth = 0 /\ DoToSlice /\ depth' = depth + 1

Next ==
    \/ WhereStep
    \/ WhereGroupStep
    \/ DistinctStep
    \/ OrderByStep
    \/ OrderByDescendingStep
    \/ SkipStep
    \/ TakeStep
    \/ ReverseStep
    \/ ElementAtStep
    \/ DefaultIfEmptyStep
    \/ UnionStep
    \/ IntersectStep
    \/ ExceptStep
    \/ SelectStep
    \/ ToSliceStep

Spec == Init /\ [][Next]_vars

(* ---- SpecChain: calls chained on the Queries returned, with the ------- *)
(* ---- comparators of linq_test.go                                ------- *)

ChainWhere == depth < MaxChain /\ DoWhere(Preds)
ChainWhereGroup == depth < MaxChain /\ DoWhereGroup(Groups)
ChainDistinct == depth < MaxChain /\ DoDistinct({EqualInt(Values)})
ChainOrderBy == depth < MaxChain /\ DoOrderBy({LessInt(Values)})
ChainOrderByDescending ==
    depth < MaxChain /\ DoOrderByDescending({LessInt(Values)}, Values)
ChainSkip == depth < MaxChain /\ DoSkip
ChainTake == depth < MaxChain /\ DoTake
ChainReverse == depth < MaxChain /\ DoReverse
ChainDefaultIfEmpty == depth < MaxChain /\ DoDefaultIfEmpty
ChainUnion == depth < MaxChain /\ DoUnion(Others, {EqualInt(Values)})
ChainIntersect == depth < MaxChain /\ DoIntersect(Others, {EqualInt(Values)})
ChainExcept == depth < MaxChain /\ DoExcept(Others, {EqualInt(Values)})
ChainSelect == depth < MaxChain /\ DoSelect(Selectors)
\* ToSlice is no transformation: it does not count as a call of the chain
ChainToSlice == last.op # "ToSlice" /\ DoToSlice /\ depth' = depth

NextChain ==
    \/ ChainWhere
    \/ ChainWhereGroup
    \/ ChainDistinct
    \/ ChainOrderBy
    \/ ChainOrderByDescending
    \/ ChainSkip
    \/ ChainTake
    \/ ChainReverse
    \/ ChainDefaultIfEmpty
    \/ ChainUnion
    \/ ChainIntersect
    \/ ChainExcept
    \/ ChainSelect
    \/ ChainToSlice

SpecChain == Init /\ [][NextChain]_vars

(* ------ SpecSort: OrderBy on From(xs) for slices of SortLen elements --- *)

InitSort == InitFrom([1..SortLen -> SortValues], {0})

SortOrderBy == depth = 0 /\ DoOrderBy(StrictWeakOrders(SortValues))
SortOrderByDescending ==
    depth = 0 /\ DoOrderByDescending(StrictWeakOrders(SortValues), SortValues)

NextSort ==
    \/ SortOrderBy
    \/ SortOrderByDescending

SpecSort == InitSort /\ [][NextSort]_vars

(* ======================= the claims' vocabulary ======================== *)

\* the elements of s at the indices in K, in order
RestrictTo(s, K) ==
    LET F[i \in 0..Len(s)] ==
            IF i = 0 THEN <<>>
            ELSE IF i \in K THEN Append(F[i - 1], s[i]) ELSE F[i - 1]
    IN  F[Len(s)]

\* the elements of s that satisfy every / at least one predicate of preds
AllOf(s, preds) ==
    RestrictTo(s, {i \in 1..Len(s) : \A k \in 1..Len(preds) : s[i] \in preds[k]})
AnyOf(s, preds) ==
    RestrictTo(s, {i \in 1..Len(s) : \E k \in 1..Len(preds) : s[i] \in preds[k]})

\* Where(p1). ... .Where(pn) on the elements s
RECURSIVE WhereChain(_, _, _)
WhereChain(s, preds, i) ==
    IF i > Len(preds) THEN s
    ELSE WhereChain(WhereGroupLoop(s, 1, [preds |-> <<preds[i]>>, op |-> And], <<>>),
                    preds, i + 1)

\* x is equal under eq to some element of other
HasMatch(x, other, eq) == \E j \in 1..Len(other) : <<x, other[j]>> \in eq

\* the indices Distinct keeps: i is kept iff s[i] is equal to no kept earlier element
KeptIndices(s, eq) ==
    CHOOSE K \in SUBSET (1..Len(s)) :
        \A i \in 1..Len(s) :
            i \in K <=> \A j \in K : j < i => <<s[i], s[j]>> \notin eq
FirstKept(s, eq) == RestrictTo(s, KeptIndices(s, eq))

\* the indices of the first occurrences: s[i] is equal to no earlier element
FirstOccurrences(s, eq) ==
    {i \in 1..Len(s) : \A j \in 1..(i - 1) : <<s[i], s[j]>> \notin eq}

IsEquivalence(eq, U) ==
    /\ \A a \in U : <<a, a>> \in eq
    /\ \A a, b \in U : <<a, b>> \in eq => <<b, a>> \in eq
    /\ \A a, b, c \in U : <<a, b>> \in eq /\ <<b, c>> \in eq => <<a, c>> \in eq

\* the number of indices of s whose element satisfies x = v
Occurrences(s, v) == Cardinality({i \in 1..Len(s) : s[i] = v})

IsPermutation(s, t, U) ==
    Len(s) = Len(t) /\ \A v \in U : Occurrences(s, v) = Occurrences(t, v)

\* no later element is less than an earlier one
IsSorted(s, less) ==
    \A i, j \in 1..Len(s) : i < j => <<s[j], s[i]>> \notin less

\* the elements tied with a keep the order they have in the input
IsStable(in, out, less, U) ==
    \A a \in U :
        LET T == {x \in U : Tied(less, x, a)}
        IN  RestrictTo(out, {i \in 1..Len(out) : out[i] \in T})
              = RestrictTo(in, {i \in 1..Len(in) : in[i] \in T})

(* ============================== claims ================================= *)

\* C1: no transformation changes the elements of a slice the caller holds
\* (the slice given to From, and every slice ToSlice returned).
C1_HeldSlicesUnchanged ==
    [][\A i \in 1..Len(held) : Elems(heap', held[i]) = Elems(heap, held[i])]_vars

\* C2: Skip(n) and Take(n) fail for no n, and clamp n to [0, length]: Skip
\* returns the sequence when n <= 0, nothing when n >= length; Take returns
\* nothing when n <= 0, the sequence when n > length.
C2_SkipTakeClamp ==
    /\ last.op = "Skip" =>
         /\ last.ok
         /\ last.out = IF last.n <= 0 THEN last.in
                       ELSE IF last.n >= Len(last.in) THEN <<>>
                       ELSE SubSeq(last.in, last.n + 1, Len(last.in))
    /\ last.op = "Take" =>
         /\ last.ok
         /\ last.out = IF last.n <= 0 THEN <<>>
                       ELSE IF last.n > Len(last.in) THEN last.in
                       ELSE SubSeq(last.in, 1, last.n)

\* C3: for every n, Take(n).ToSlice() followed by Skip(n).ToSlice() is xs, and
\* Skip(n).Count() + min(n, len(xs)) = len(xs).  Stated after Skip(n) on
\* From(xs), with Take(n) on the same Query (held[1] is xs).
C3_TakeThenSkipIsAll ==
    last.op = "Skip" =>
        LET t == Take(heap, From(held[1]), last.n)
        IN  /\ last.ok
            /\ t.ok
            /\ Elems(t.heap, ToSliceQ(t.q)) \o Elems(heap, ToSliceQ(q)) = last.in
            /\ Count(q) + Min2(last.n, Len(last.in)) = Len(last.in)

\* C4: for a strict weak order less, OrderBy(less) returns a permutation of
\* the input, sorted per less, with tied elements in their input order.
C4_OrderByStable ==
    last.op = "OrderBy" /\ IsStrictWeakOrder(last.fn, SortValues) =>
        /\ last.ok
        /\ IsPermutation(last.out, last.in, SortValues)
        /\ IsSorted(last.out, last.fn)
        /\ IsStable(last.in, last.out, last.fn, SortValues)

\* C5: WhereGroup with AND returns, in order, the elements that satisfy every
\* predicate, which is what Where(p1)...Where(pn) returns (all of them for no
\* predicate); with OR, the elements that satisfy at least one (none for no
\* predicate).
C5_WhereGroupAndOr ==
    /\ last.op = "WhereGroup" /\ last.lop = And =>
         /\ last.ok
         /\ last.out = AllOf(last.in, last.preds)
         /\ last.out = WhereChain(last.in, last.preds, 1)
         /\ last.preds = <<>> => last.out = last.in
    /\ last.op = "WhereGroup" /\ last.lop = Or =>
         /\ last.ok
         /\ last.out = AnyOf(last.in, last.preds)
         /\ last.preds = <<>> => last.out = <<>>

C5_Witness ==
    /\ last.op = "WhereGroup" /\ last.lop = And /\ Len(last.preds) = 2
    /\ last.preds[1] # last.preds[2]
    /\ last.in = <<1, 2, 1>>
    /\ last.out = <<1, 1>>

\* C6: Except(other, eq) returns, in order, the elements of xs equal under eq
\* to no element of other, each as often as it occurs in xs.
C6_ExceptKeepsDuplicates ==
    last.op = "Except" =>
        /\ last.ok
        /\ last.out = RestrictTo(last.in,
                        {i \in 1..Len(last.in) : ~HasMatch(last.in[i], last.other, last.fn)})
        /\ \A v \in Values :
             ~HasMatch(v, last.other, last.fn) =>
                 Occurrences(last.out, v) = Occurrences(last.in, v)

C6_Witness ==
    /\ last.op = "Except" /\ last.fn = EqualInt(Values)
    /\ last.in = <<1, 2, 1>> /\ last.other = <<2>>
    /\ last.out = <<1, 1>>

\* C7: Union(other, eq) returns what Distinct(eq) keeps of xs followed by
\* other: the kept elements in first-occurrence order, those of xs first.
C7_UnionIsDistinctOfConcat ==
    last.op = "Union" =>
        /\ last.ok
        /\ last.out = FirstKept(last.in \o last.other, last.fn)
        /\ \E k \in 0..Len(last.out) :
             /\ SubSeq(last.out, 1, k) = FirstKept(last.in, last.fn)
             /\ \A i \in (k + 1)..Len(last.out) :
                    \E j \in 1..Len(last.other) : last.other[j] = last.out[i]

C7_Witness ==
    /\ last.op = "Union" /\ last.fn = EqualInt(Values)
    /\ last.in = <<2, 2>> /\ last.other = <<2, 1>>
    /\ last.out = <<2, 1>>

\* C8: Intersect(other, eq) returns what Distinct(eq) keeps of the elements of
\* xs that are equal under eq to an element of other; for an equivalence eq, a
\* value of xs with a match occurs once in it, and one without a match never.
C8_IntersectIsDistinctOfMatches ==
    last.op = "Intersect" =>
        /\ last.ok
        /\ last.out = FirstKept(RestrictTo(last.in,
                          {i \in 1..Len(last.in) : HasMatch(last.in[i], last.other, last.fn)}),
                        last.fn)
        /\ IsEquivalence(last.fn, Values) =>
             \A i \in 1..Len(last.in) :
                 Cardinality({k \in 1..Len(last.out) : <<last.out[k], last.in[i]>> \in last.fn})
                   = IF HasMatch(last.in[i], last.other, last.fn) THEN 1 ELSE 0

C8_Witness ==
    /\ last.op = "Intersect" /\ last.fn = EqualInt(Values)
    /\ last.in = <<2, 1, 2>> /\ last.other = <<2>>
    /\ last.out = <<2>>

\* C9: Distinct(eq) returns a subsequence of the input: the elements equal to
\* no element kept before them.  For an equivalence eq, no two of its elements
\* are equal under eq and it holds the first occurrence of every value.
C9_DistinctFirstOccurrences ==
    last.op = "Distinct" =>
        /\ last.ok
        /\ last.out = FirstKept(last.in, last.fn)
        /\ \A i, j \in 1..Len(last.out) : i < j => <<last.out[j], last.out[i]>> \notin last.fn
        /\ IsEquivalence(last.fn, Values) =>
             /\ \A i, j \in 1..Len(last.out) : i # j => <<last.out[i], last.out[j]>> \notin last.fn
             /\ last.out = RestrictTo(last.in, FirstOccurrences(last.in, last.fn))

C9_Witness ==
    /\ last.op = "Distinct" /\ last.fn = EqualInt(Values)
    /\ last.in = <<2, 1, 2>>
    /\ last.out = <<2, 1>>

\* C10: ElementAt(index) returns (the element at index, true) exactly when
\* 0 <= index < length, and (the zero value, false) otherwise; a negative
\* index is out of range.
C10_ElementAtInRange ==
    last.op = "ElementAt" =>
        /\ last.ok
        /\ last.found <=> (0 <= last.n /\ last.n < Len(last.in))
        /\ last.found => last.elem = last.in[last.n + 1]
        /\ ~last.found => last.elem = Zero
        /\ last.n < 0 => ~last.found

C10_Witness ==
    /\ last.op = "ElementAt" /\ last.n < 0 /\ Len(last.in) = MaxLen
    /\ ~last.found /\ last.elem = Zero

\* no element is followed by one that is greater than it under less
IsDescending(s, less) ==
    \A i, j \in 1..Len(s) : i < j => <<s[i], s[j]>> \notin less

\* C11: for a strict weak order less and sequences with tied elements,
\* OrderByDescending(less) returns what OrderBy returns for the comparator
\* (a, b) -> not less(a, b) on the same toolchain, and that is a permutation
\* of the input in descending order.
C11_OrderByDescendingSorted ==
    last.op = "OrderByDescending" /\ IsStrictWeakOrder(last.fn, SortValues) =>
        /\ last.ok
        /\ \E go118 \in BOOLEAN :
             LET r == OrderBy(heap, From(held[1]), NotLess(last.fn, SortValues), go118)
             IN  r.ok /\ last.out = Elems(r.heap, ToSliceQ(r.q))
        /\ IsPermutation(last.out, last.in, SortValues)
        /\ IsDescending(last.out, last.fn)

C11_Witness ==
    /\ last.op = "OrderByDescending"
    /\ last.fn = {<<1, 2>>, <<1, 3>>}
    /\ last.in = <<1, 2, 3, 1, 2, 3, 1>>
    /\ Len(last.out) = SortLen /\ last.out[SortLen] = 1 /\ last.out[1] # 1

====
